---- MODULE Spec2Model ----
(***************************************************************************)
(* Model of job-fit-evaluator/backend/main.py: the /job-fit handler with   *)
(* its module-level CACHE, the cache_key derivation, the two-stage parse   *)
(* of the model output, and the /health endpoint.                          *)
(*                                                                         *)
(* Texts (resume, job, model output, keys) are sequences of one-character  *)
(* strings.  JSON values are records of one shape, so that any two of them *)
(* can be compared.                                                        *)
(***************************************************************************)
EXTENDS Integers, Sequences, FiniteSets, TLC

(***************************************************************************)
(* Bounds of the model.                                                    *)
(***************************************************************************)
\* number of /job-fit calls that the dispatcher may run concurrently
NumCalls == 2
\* longest model output enumerated exhaustively by the parser specification
MaxTextLen == 4
\* longest short resume enumerated for cache_key
MaxResumeLen == 3
\* characters appended to the 49-character pad to build long resumes
MaxTailLen == 2

\* data.resume[:50], main.py line 33
ResumePrefixLen == 50

(***************************************************************************)
(* JSON values: the Python objects json.loads builds and the handler       *)
(* returns (dict, str, int).  mem is the ordered list of a dict's items.   *)
(***************************************************************************)
NoVal == [kind |-> "none", num |-> 0, str |-> <<>>, mem |-> <<>>]
JNum(n) == [kind |-> "num", num |-> n, str |-> <<>>, mem |-> <<>>]
JStr(s) == [kind |-> "str", num |-> 0, str |-> s, mem |-> <<>>]
JObj(m) == [kind |-> "obj", num |-> 0, str |-> <<>>, mem |-> m]
Item(k, v) == [key |-> k, val |-> v]

(***************************************************************************)
(* json.loads, restricted to texts whose characters are braces, double     *)
(* quotes, colons, spaces, digits and plain letters: whitespace is         *)
(* skipped, a value is an object, a string or an unsigned integer, an      *)
(* object has at most one member (no comma in the alphabet), and anything  *)
(* left after the value is "Extra data".                                   *)
(***************************************************************************)
Digits == <<"0", "1", "2", "3", "4", "5", "6", "7", "8", "9">>
IsDigit(ch) == \E d \in 1..10 : Digits[d] = ch
DigitVal(ch) == (CHOOSE d \in 1..10 : Digits[d] = ch) - 1

ScanFail == [ok |-> FALSE, val |-> NoVal, end |-> 0]
ScanOk(v, e) == [ok |-> TRUE, val |-> v, end |-> e]
CharAt(s, i) == IF i >= 1 /\ i <= Len(s) THEN s[i] ELSE "EOF"

RECURSIVE SkipWs(_, _)
SkipWs(s, i) == IF CharAt(s, i) = " " THEN SkipWs(s, i + 1) ELSE i

\* s[i] is the opening quote; the string ends at the next quote
RECURSIVE CloseQuote(_, _)
CloseQuote(s, j) ==
  IF j > Len(s) THEN 0
  ELSE IF s[j] = "\"" THEN j
  ELSE CloseQuote(s, j + 1)

ScanString(s, i) ==
  LET j == CloseQuote(s, i + 1)
  IN IF j = 0 THEN ScanFail ELSE ScanOk(JStr(SubSeq(s, i + 1, j - 1)), j + 1)

RECURSIVE DigitsEnd(_, _)
DigitsEnd(s, j) == IF IsDigit(CharAt(s, j)) THEN DigitsEnd(s, j + 1) ELSE j

RECURSIVE NumVal(_)
NumVal(ds) ==
  IF ds = <<>> THEN 0
  ELSE 10 * NumVal(SubSeq(ds, 1, Len(ds) - 1)) + DigitVal(ds[Len(ds)])

\* NUMBER_RE: 0 | [1-9][0-9]*  (a leading zero ends the number)
ScanNumber(s, i) ==
  LET e == IF s[i] = "0" THEN i + 1 ELSE DigitsEnd(s, i)
  IN ScanOk(JNum(NumVal(SubSeq(s, i, e - 1))), e)

RECURSIVE ScanValue(_, _)
RECURSIVE ScanObject(_, _)
ScanValue(s, i) ==
  LET ch == CharAt(s, i)
  IN IF ch = "\"" THEN ScanString(s, i)
     ELSE IF ch = "{" THEN ScanObject(s, i + 1)
     ELSE IF IsDigit(ch) THEN ScanNumber(s, i)
     ELSE ScanFail

\* i is the position after the opening brace
ScanObject(s, i) ==
  LET j == SkipWs(s, i)
  IN IF CharAt(s, j) = "}" THEN ScanOk(JObj(<<>>), j + 1)
     ELSE IF CharAt(s, j) # "\"" THEN ScanFail
     ELSE LET k == ScanString(s, j)
          IN IF ~k.ok THEN ScanFail
             ELSE LET c == SkipWs(s, k.end)
                  IN IF CharAt(s, c) # ":" THEN ScanFail
                     ELSE LET v == ScanValue(s, SkipWs(s, c + 1))
                          IN IF ~v.ok THEN ScanFail
                             ELSE LET m == SkipWs(s, v.end)
                                  IN IF CharAt(s, m) = "}"
                                     THEN ScanOk(JObj(<<Item(k.val.str, v.val)>>), m + 1)
                                     ELSE ScanFail

\* json.loads(text): [ok |-> FALSE] stands for json.JSONDecodeError
JsonLoads(s) ==
  LET r == ScanValue(s, SkipWs(s, 1))
  IN IF r.ok /\ SkipWs(s, r.end) = Len(s) + 1
     THEN [ok |-> TRUE, val |-> r.val]
     ELSE [ok |-> FALSE, val |-> NoVal]

(***************************************************************************)
(* Python string primitives with Python's 0-based indices.                 *)
(***************************************************************************)
\* text.find(ch): index of the first occurrence, -1 if there is none
PyFind(s, ch) ==
  IF \E i \in 1..Len(s) : s[i] = ch
  THEN (CHOOSE i \in 1..Len(s) : s[i] = ch /\ \A j \in 1..(i - 1) : s[j] # ch) - 1
  ELSE -1

\* text.rfind(ch): index of the last occurrence, -1 if there is none
PyRFind(s, ch) ==
  IF \E i \in 1..Len(s) : s[i] = ch
  THEN (CHOOSE i \in 1..Len(s) : s[i] = ch /\ \A j \in (i + 1)..Len(s) : s[j] # ch) - 1
  ELSE -1

\* text[a:b] for a, b >= 0
PySlice(s, a, b) ==
  LET hi == IF b > Len(s) THEN Len(s) ELSE b
  IN IF a >= hi THEN <<>> ELSE SubSeq(s, a + 1, hi)

(***************************************************************************)
(* Requests.  A FitRequest has an optional resume, optional preferences    *)
(* and a job text.  An optional field is a record whose "present" is FALSE *)
(* for Python's None.  A preferences dict is the ordered list of its       *)
(* items, with integer values.                                             *)
(***************************************************************************)
NoResume == [present |-> FALSE, chars |-> <<>>]
SomeResume(s) == [present |-> TRUE, chars |-> s]
NoPrefs == [present |-> FALSE, items |-> <<>>]
SomePrefs(m) == [present |-> TRUE, items |-> m]
FitRequest(r, p, j) == [resume |-> r, preferences |-> p, job |-> j]

\* Python truthiness of req.resume: None and "" are both falsy
Truthy(resume) == resume.present /\ resume.chars # <<>>

\* data.preferences or {}
PrefsOrEmpty(p) == IF p.present /\ p.items # <<>> THEN p.items ELSE <<>>

RECURSIVE DumpInt(_)
DumpInt(n) == IF n < 10 THEN <<Digits[n + 1]>> ELSE DumpInt(n \div 10) \o <<Digits[(n % 10) + 1]>>

RECURSIVE DumpItems(_)
DumpItems(m) ==
  IF m = <<>> THEN <<>>
  ELSE <<"\"">> \o m[1].key \o <<"\"", ":", " ">> \o DumpInt(m[1].val)
       \o (IF Len(m) > 1 THEN <<",", " ">> ELSE <<>>) \o DumpItems(Tail(m))

\* json.dumps of a dict of integers, with Python's default separators
JsonDumps(m) == <<"{">> \o DumpItems(m) \o <<"}">>

NoResumeLiteral == <<"n", "o", "-", "r", "e", "s", "u", "m", "e">>

\* hashlib.sha256(raw.encode()).hexdigest(), taken to be injective: the
\* digest is represented by the text it was computed from
SHA256Hex(raw) == <<"sha256">> \o raw
NoKey == <<>>

\* variant of cache_key that hashes the whole resume (no [:50])
cache_key_FullResume(data) ==
  LET resume_part == IF Truthy(data.resume) THEN data.resume.chars ELSE NoResumeLiteral
      raw == resume_part \o JsonDumps(PrefsOrEmpty(data.preferences)) \o data.job
  IN SHA256Hex(raw)

cache_key(data) ==
  LET resume_part == IF Truthy(data.resume)
                     THEN PySlice(data.resume.chars, 0, ResumePrefixLen)
                     ELSE NoResumeLiteral
      raw == resume_part \o JsonDumps(PrefsOrEmpty(data.preferences)) \o data.job
  IN SHA256Hex(raw)

\* PROMPT_TEMPLATE.format(resume=..., preferences=..., job=...): the fixed
\* instructions are one token each, the three substitutions are verbatim
Prompt(r) ==
  <<"INSTRUCTIONS", "Resume:">> \o r.resume.chars
  \o <<"Preferences:">> \o JsonDumps(PrefsOrEmpty(r.preferences))
  \o <<"Job Description:">> \o r.job \o <<"TASK", "SCORING", "OUTPUT">>
NoPrompt == <<>>

(***************************************************************************)
(* The parse of the model output, lines 141-152.  raised = TRUE is a       *)
(* json.JSONDecodeError leaving the inner try: the reparse of line 150 is  *)
(* inside the except clause, so its error is not caught there.             *)
(***************************************************************************)
Sentinel(text) ==
  JObj(<<Item(<<"e", "r", "r", "o", "r">>, JStr(<<"i", "n", "v", "a", "l", "i", "d", "_", "j", "s", "o", "n">>)), Item(<<"r", "a", "w">>, JStr(text))>>)

Parsed(v) == [raised |-> FALSE, val |-> v]
ParseRaised == [raised |-> TRUE, val |-> NoVal]

\* variant of the parse whose slice stops before the last "}" (no + 1)
ParseVerdict_NoPlusOne(text) ==
  LET direct == JsonLoads(text)
      start == PyFind(text, "{")
      end == PyRFind(text, "}")
  IN IF direct.ok THEN Parsed(direct.val)
     ELSE IF start # -1 /\ end # -1
          THEN LET sub == JsonLoads(PySlice(text, start, end))
               IN IF sub.ok THEN Parsed(sub.val) ELSE ParseRaised
          ELSE Parsed(Sentinel(text))

ParseVerdict(text) ==
  LET direct == JsonLoads(text)
      start == PyFind(text, "{")
      end == PyRFind(text, "}") + 1
  IN IF direct.ok THEN Parsed(direct.val)
     ELSE IF start # -1 /\ end # -1
          THEN LET sub == JsonLoads(PySlice(text, start, end))
               IN IF sub.ok THEN Parsed(sub.val) ELSE ParseRaised
          ELSE Parsed(Sentinel(text))

(***************************************************************************)
(* HTTP responses and exceptions.                                          *)
(***************************************************************************)
NoResp == [status |-> 0, body |-> NoVal, detail |-> ""]
Ok200(body) == [status |-> 200, body |-> body, detail |-> ""]
\* raise HTTPException(status_code=500, detail=str(e))
Err500(detail) == [status |-> 500, body |-> NoVal, detail |-> detail]

NoExc == [type |-> "none", msg |-> ""]
Exc(t, m) == [type |-> t, msg |-> m]
\* str(e)
StrOf(e) == e.msg
JSONDecodeError == Exc("json.JSONDecodeError", "Expecting value")

\* what requests.post / raise_for_status / r.json() can raise
GatewayErrors ==
  { Exc("requests.ConnectionError", "connection refused"),
    Exc("requests.Timeout", "read timed out"),
    Exc("requests.HTTPError", "500 Server Error") }

RejectBody == JObj(<<Item(<<"e", "r", "r", "o", "r">>, JStr(<<"R", "e", "s", "u", "m", "e", " ", "t", "e", "x", "t", " ", "i", "s", " ", "r", "e", "q", "u", "i", "r", "e", "d">>))>>)
HealthBody == JObj(<<Item(<<"s", "t", "a", "t", "u", "s">>, JStr(<<"o", "k">>))>>)

(***************************************************************************)
(* Inputs of the handler specification.                                    *)
(***************************************************************************)
Calls == 1..NumCalls

Pad(n) == [i \in 1..n |-> "r"]
\* two resumes that agree on their first 50 characters and differ after
ResumeA == Pad(ResumePrefixLen) \o <<"A">>
ResumeB == Pad(ResumePrefixLen) \o <<"B">>
Job1 == <<"j">>

ReqNone == FitRequest(NoResume, NoPrefs, Job1)
ReqEmpty == FitRequest(SomeResume(<<>>), NoPrefs, Job1)
ReqA == FitRequest(SomeResume(ResumeA), NoPrefs, Job1)
ReqB == FitRequest(SomeResume(ResumeB), NoPrefs, Job1)
ReqNoJob == FitRequest(SomeResume(ResumeA), NoPrefs, <<>>)
HandlerRequests == {ReqNone, ReqEmpty, ReqA, ReqB, ReqNoJob}
NoReq == FitRequest(NoResume, NoPrefs, <<>>)

\* what r.json().get("response", "") can be after a successful call
TxtValid == <<"{", "\"", "a", "\"", ":", "1", "}">>
TxtWrapped == <<"a", " ">> \o TxtValid \o <<" ", "a">>
TxtBadBraces == <<"{", "a", "}">>
TxtOpenOnly == <<"{">>
TxtNoBraces == <<"a">>
TxtEmpty == <<>>
GatewayTexts == {TxtValid, TxtWrapped, TxtBadBraces, TxtOpenOnly, TxtNoBraces, TxtEmpty}
NoText == <<"(none)">>

(***************************************************************************)
(* State.  CACHE is the module-level dict.  Each call of job_fit has its   *)
(* request, its position in the handler (pc), its locals (key, prompt,     *)
(* text, parsed), the exception it caught, its response, and counters of   *)
(* what it did.  lastWriter records which call last assigned CACHE[k].     *)
(* parseIn/parseOut and keyIn/keyOut are the argument and result of the    *)
(* parser and of cache_key when they are exercised on their own.           *)
(***************************************************************************)
VARIABLES CACHE, pc, req, key, prompt, text, parsed, exc, resp, outcome,
          count, lastWriter, healthResp, parseIn, parseOut, keyIn, keyOut

vars == <<CACHE, pc, req, key, prompt, text, parsed, exc, resp, outcome,
          count, lastWriter, healthResp, parseIn, parseOut, keyIn, keyOut>>
handlerVars == <<CACHE, pc, req, key, prompt, text, parsed, exc, resp, outcome,
                 count, lastWriter, healthResp>>
pureVars == <<parseIn, parseOut, keyIn, keyOut>>

NoCount == [gw |-> 0, prompt |-> 0, parse |-> 0, lookup |-> 0, write |-> 0, resp |-> 0]
EmptyCache == [k \in {} |-> NoVal]
NotRun == [raised |-> FALSE, val |-> NoVal, done |-> FALSE]
NoKeys == <<NoKey, NoKey>>

InitHandler ==
  /\ CACHE = EmptyCache
  /\ pc = [c \in Calls |-> "idle"]
  /\ req = [c \in Calls |-> NoReq]
  /\ key = [c \in Calls |-> NoKey]
  /\ prompt = [c \in Calls |-> NoPrompt]
  /\ text = [c \in Calls |-> NoText]
  /\ parsed = [c \in Calls |-> NoVal]
  /\ exc = [c \in Calls |-> NoExc]
  /\ resp = [c \in Calls |-> NoResp]
  /\ outcome = [c \in Calls |-> "none"]
  /\ count = [c \in Calls |-> NoCount]
  /\ lastWriter = [k \in {} |-> 0]
  /\ healthResp = NoResp

InitPure ==
  /\ parseIn = NoText
  /\ parseOut = NotRun
  /\ keyIn = <<NoReq, NoReq>>
  /\ keyOut = NoKeys

Init == InitHandler /\ InitPure

\* CACHE[key] = parsed
Put(C, k, v) == [x \in (DOMAIN C) \cup {k} |-> IF x = k THEN v ELSE C[x]]

Bump(c, f) == [count EXCEPT ![c][f] = @ + 1]

(***************************************************************************)
(* job_fit, lines 105-159.  Steps are split where the handler reads or     *)
(* writes CACHE; the dispatcher may interleave calls between steps.        *)
(***************************************************************************)
\* lines 105-109: the request arrives; a falsy resume is rejected
\* variant of Start without the resume check of line 108
Start_NoCheck(c, r) ==
  /\ pc[c] = "idle"
  /\ req' = [req EXCEPT ![c] = r]
  /\ pc' = [pc EXCEPT ![c] = "lookup"]
  /\ UNCHANGED <<CACHE, key, prompt, text, parsed, exc, resp, outcome, count,
                 lastWriter, healthResp, pureVars>>

Start(c, r) ==
  /\ pc[c] = "idle"
  /\ req' = [req EXCEPT ![c] = r]
  /\ IF ~Truthy(r.resume)
     THEN /\ resp' = [resp EXCEPT ![c] = Ok200(RejectBody)]
          /\ outcome' = [outcome EXCEPT ![c] = "reject"]
          /\ count' = Bump(c, "resp")
          /\ pc' = [pc EXCEPT ![c] = "done"]
     ELSE /\ pc' = [pc EXCEPT ![c] = "lookup"]
          /\ UNCHANGED <<resp, outcome, count>>
  /\ UNCHANGED <<CACHE, key, prompt, text, parsed, exc, lastWriter, healthResp, pureVars>>

\* lines 111-112: key = cache_key(req); if key in CACHE
Lookup(c) ==
  /\ pc[c] = "lookup"
  /\ key' = [key EXCEPT ![c] = cache_key(req[c])]
  /\ count' = Bump(c, "lookup")
  /\ pc' = [pc EXCEPT ![c] = IF cache_key(req[c]) \in DOMAIN CACHE THEN "hit" ELSE "miss"]
  /\ UNCHANGED <<CACHE, req, prompt, text, parsed, exc, resp, outcome,
                 lastWriter, healthResp, pureVars>>

\* lines 113-114: return CACHE[key]
\* variant of the hit branch that returns the local parsed, not CACHE[key]
HitReturn_ReturnsParsed(c) ==
  /\ pc[c] = "hit"
  /\ resp' = [resp EXCEPT ![c] = Ok200(parsed[c])]
  /\ outcome' = [outcome EXCEPT ![c] = "hit"]
  /\ count' = Bump(c, "resp")
  /\ pc' = [pc EXCEPT ![c] = "done"]
  /\ UNCHANGED <<CACHE, req, key, prompt, text, parsed, exc, lastWriter,
                 healthResp, pureVars>>

HitReturn(c) ==
  /\ pc[c] = "hit"
  /\ resp' = [resp EXCEPT ![c] = Ok200(CACHE[key[c]])]
  /\ outcome' = [outcome EXCEPT ![c] = "hit"]
  /\ count' = Bump(c, "resp")
  /\ pc' = [pc EXCEPT ![c] = "done"]
  /\ UNCHANGED <<CACHE, req, key, prompt, text, parsed, exc, lastWriter,
                 healthResp, pureVars>>

\* lines 116-135 and 157-159: the prompt is built, the one gateway call is
\* made and raises e; the handler answers 500 with str(e)
\* variant of the failure path that calls the gateway a second time
GatewayFail_Retry(c, e) ==
  /\ pc[c] = "miss"
  /\ count[c].gw < 2
  /\ prompt' = [prompt EXCEPT ![c] = Prompt(req[c])]
  /\ count' = [count EXCEPT ![c].prompt = 1, ![c].gw = @ + 1]
  /\ exc' = [exc EXCEPT ![c] = e]
  /\ IF count[c].gw = 0
     THEN UNCHANGED <<resp, outcome, pc>>
     ELSE /\ resp' = [resp EXCEPT ![c] = Err500(StrOf(e))]
          /\ outcome' = [outcome EXCEPT ![c] = "gateway_error"]
          /\ pc' = [pc EXCEPT ![c] = "done"]
  /\ UNCHANGED <<CACHE, req, key, text, parsed, lastWriter, healthResp, pureVars>>

\* variant of the failure path that stores an error entry under the key
GatewayFail_CachesError(c, e) ==
  /\ pc[c] = "miss"
  /\ prompt' = [prompt EXCEPT ![c] = Prompt(req[c])]
  /\ count' = [count EXCEPT ![c].prompt = @ + 1, ![c].gw = @ + 1, ![c].resp = @ + 1,
                            ![c].write = @ + 1]
  /\ exc' = [exc EXCEPT ![c] = e]
  /\ CACHE' = Put(CACHE, key[c], Sentinel(<<>>))
  /\ lastWriter' = Put(lastWriter, key[c], c)
  /\ resp' = [resp EXCEPT ![c] = Err500(StrOf(e))]
  /\ outcome' = [outcome EXCEPT ![c] = "gateway_error"]
  /\ pc' = [pc EXCEPT ![c] = "done"]
  /\ UNCHANGED <<req, key, text, parsed, healthResp, pureVars>>

GatewayFail(c, e) ==
  /\ pc[c] = "miss"
  /\ prompt' = [prompt EXCEPT ![c] = Prompt(req[c])]
  /\ count' = [count EXCEPT ![c].prompt = @ + 1, ![c].gw = @ + 1, ![c].resp = @ + 1]
  /\ exc' = [exc EXCEPT ![c] = e]
  /\ resp' = [resp EXCEPT ![c] = Err500(StrOf(e))]
  /\ outcome' = [outcome EXCEPT ![c] = "gateway_error"]
  /\ pc' = [pc EXCEPT ![c] = "done"]
  /\ UNCHANGED <<CACHE, req, key, text, parsed, lastWriter, healthResp, pureVars>>

\* lines 116-152 (and 157-159 when the reparse raises): the gateway call
\* succeeds with text t, which is parsed
GatewayOk(c, t) ==
  /\ pc[c] = "miss"
  /\ prompt' = [prompt EXCEPT ![c] = Prompt(req[c])]
  /\ text' = [text EXCEPT ![c] = t]
  /\ LET v == ParseVerdict(t)
     IN IF v.raised
        THEN /\ exc' = [exc EXCEPT ![c] = JSONDecodeError]
             /\ resp' = [resp EXCEPT ![c] = Err500(StrOf(JSONDecodeError))]
             /\ outcome' = [outcome EXCEPT ![c] = "parse_error"]
             /\ count' = [count EXCEPT ![c].prompt = @ + 1, ![c].gw = @ + 1,
                                       ![c].parse = @ + 1, ![c].resp = @ + 1]
             /\ pc' = [pc EXCEPT ![c] = "done"]
             /\ UNCHANGED parsed
        ELSE /\ parsed' = [parsed EXCEPT ![c] = v.val]
             /\ count' = [count EXCEPT ![c].prompt = @ + 1, ![c].gw = @ + 1,
                                       ![c].parse = @ + 1]
             /\ pc' = [pc EXCEPT ![c] = "store"]
             /\ UNCHANGED <<exc, resp, outcome>>
  /\ UNCHANGED <<CACHE, req, key, lastWriter, healthResp, pureVars>>

\* lines 154-155: CACHE[key] = parsed; return parsed
\* variant of the store that keeps an existing entry (CACHE.setdefault)
Store_SetDefault(c) ==
  /\ pc[c] = "store"
  /\ CACHE' = IF key[c] \in DOMAIN CACHE THEN CACHE ELSE Put(CACHE, key[c], parsed[c])
  /\ lastWriter' = Put(lastWriter, key[c], c)
  /\ resp' = [resp EXCEPT ![c] = Ok200(parsed[c])]
  /\ outcome' = [outcome EXCEPT ![c] = "pipeline"]
  /\ count' = [count EXCEPT ![c].write = @ + 1, ![c].resp = @ + 1]
  /\ pc' = [pc EXCEPT ![c] = "done"]
  /\ UNCHANGED <<req, key, prompt, text, parsed, exc, healthResp, pureVars>>

\* variant of the store that drops every other entry (CACHE = {key: parsed})
Store_EvictsOthers(c) ==
  /\ pc[c] = "store"
  /\ CACHE' = [x \in {key[c]} |-> parsed[c]]
  /\ lastWriter' = [x \in {key[c]} |-> c]
  /\ resp' = [resp EXCEPT ![c] = Ok200(parsed[c])]
  /\ outcome' = [outcome EXCEPT ![c] = "pipeline"]
  /\ count' = [count EXCEPT ![c].write = @ + 1, ![c].resp = @ + 1]
  /\ pc' = [pc EXCEPT ![c] = "done"]
  /\ UNCHANGED <<req, key, prompt, text, parsed, exc, healthResp, pureVars>>

\* variant of the store that does not cache an error-shaped verdict
Store_SkipsSentinel(c) ==
  /\ pc[c] = "store"
  /\ IF parsed[c] = Sentinel(text[c])
     THEN UNCHANGED <<CACHE, lastWriter>>
     ELSE /\ CACHE' = Put(CACHE, key[c], parsed[c])
          /\ lastWriter' = Put(lastWriter, key[c], c)
  /\ resp' = [resp EXCEPT ![c] = Ok200(parsed[c])]
  /\ outcome' = [outcome EXCEPT ![c] = "pipeline"]
  /\ count' = [count EXCEPT ![c].write = @ + 1, ![c].resp = @ + 1]
  /\ pc' = [pc EXCEPT ![c] = "done"]
  /\ UNCHANGED <<req, key, prompt, text, parsed, exc, healthResp, pureVars>>

\* variant of the store that caches the raw model output, not its parse
Store_RawText(c) ==
  /\ pc[c] = "store"
  /\ CACHE' = Put(CACHE, key[c], JStr(text[c]))
  /\ lastWriter' = Put(lastWriter, key[c], c)
  /\ resp' = [resp EXCEPT ![c] = Ok200(parsed[c])]
  /\ outcome' = [outcome EXCEPT ![c] = "pipeline"]
  /\ count' = [count EXCEPT ![c].write = @ + 1, ![c].resp = @ + 1]
  /\ pc' = [pc EXCEPT ![c] = "done"]
  /\ UNCHANGED <<req, key, prompt, text, parsed, exc, healthResp, pureVars>>

Store(c) ==
  /\ pc[c] = "store"
  /\ CACHE' = Put(CACHE, key[c], parsed[c])
  /\ lastWriter' = Put(lastWriter, key[c], c)
  /\ resp' = [resp EXCEPT ![c] = Ok200(parsed[c])]
  /\ outcome' = [outcome EXCEPT ![c] = "pipeline"]
  /\ count' = [count EXCEPT ![c].write = @ + 1, ![c].resp = @ + 1]
  /\ pc' = [pc EXCEPT ![c] = "done"]
  /\ UNCHANGED <<req, key, prompt, text, parsed, exc, healthResp, pureVars>>

\* lines 161-163: GET /health
\* variant of /health that also resets the cache
Health_ClearsCache ==
  /\ healthResp' = Ok200(HealthBody)
  /\ CACHE' = EmptyCache
  /\ lastWriter' = [k \in {} |-> 0]
  /\ UNCHANGED <<pc, req, key, prompt, text, parsed, exc, resp, outcome,
                 count, pureVars>>

Health ==
  /\ healthResp' = Ok200(HealthBody)
  /\ UNCHANGED <<CACHE, pc, req, key, prompt, text, parsed, exc, resp, outcome,
                 count, lastWriter, pureVars>>

Next ==
  \/ \E c \in Calls, r \in HandlerRequests : Start(c, r)
  \/ \E c \in Calls : Lookup(c)
  \/ \E c \in Calls : HitReturn(c)
  \/ \E c \in Calls, e \in GatewayErrors : GatewayFail(c, e)
  \/ \E c \in Calls, t \in GatewayTexts : GatewayOk(c, t)
  \/ \E c \in Calls : Store(c)
  \/ Health

Spec == Init /\ [][Next]_vars

(***************************************************************************)
(* The same handler when the dispatcher runs the requests one after        *)
(* another: a request is taken up only when no other call is under way.    *)
(***************************************************************************)
Quiet == \A c \in Calls : pc[c] \in {"idle", "done"}
StartWhenQuiet(c, r) == Quiet /\ Start(c, r)

NextSeq ==
  \/ \E c \in Calls, r \in HandlerRequests : StartWhenQuiet(c, r)
  \/ \E c \in Calls : Lookup(c)
  \/ \E c \in Calls : HitReturn(c)
  \/ \E c \in Calls, e \in GatewayErrors : GatewayFail(c, e)
  \/ \E c \in Calls, t \in GatewayTexts : GatewayOk(c, t)
  \/ \E c \in Calls : Store(c)
  \/ Health

SpecSeq == Init /\ [][NextSeq]_vars

(***************************************************************************)
(* The same handler on requests without a resume and on a request whose    *)
(* resume is the nine characters that cache_key uses for "no resume".      *)
(***************************************************************************)
ReqLiteral == FitRequest(SomeResume(NoResumeLiteral), NoPrefs, Job1)
LiteralRequests == {ReqNone, ReqEmpty, ReqLiteral}

NextLiteral ==
  \/ \E c \in Calls, r \in LiteralRequests : Start(c, r)
  \/ \E c \in Calls : Lookup(c)
  \/ \E c \in Calls : HitReturn(c)
  \/ \E c \in Calls, e \in GatewayErrors : GatewayFail(c, e)
  \/ \E c \in Calls, t \in GatewayTexts : GatewayOk(c, t)
  \/ \E c \in Calls : Store(c)
  \/ Health

SpecLiteral == Init /\ [][NextLiteral]_vars

(***************************************************************************)
(* The parser on its own: every text over ParseAlphabet up to MaxTextLen   *)
(* characters, and the longer texts below, is parsed once.                 *)
(***************************************************************************)
RECURSIVE SeqsUpTo(_, _)
SeqsUpTo(A, n) ==
  IF n = 0 THEN {<<>>}
  ELSE LET S == SeqsUpTo(A, n - 1)
       IN S \cup {Append(t, a) : t \in {u \in S : Len(u) = n - 1}, a \in A}

ParseAlphabet == {"{", "}", "\"", ":", "1", "a", " "}
TxtFitScore == <<"{", "\"", "f", "i", "t", "_", "s", "c", "o", "r", "e", "\"", ":", " ", "8", "0", "}">>
TxtSure == <<"S", "u", "r", "e", "!", " ", "{", "\"", "f", "i", "t", "_", "s", "c", "o", "r", "e", "\"", ":", " ", "8", "0", "}", " ", "H", "o", "p", "e", " ", "t", "h", "a", "t", " ", "h", "e", "l", "p", "s", "!">>
TxtNotJson == <<"n", "o", "t", " ", "j", "s", "o", "n", " ", "a", "t", " ", "a", "l", "l">>
ParseTexts ==
  SeqsUpTo(ParseAlphabet, MaxTextLen)
  \cup GatewayTexts \cup {TxtFitScore, TxtSure, TxtNotJson}

InitParse ==
  /\ InitHandler
  /\ parseIn \in ParseTexts
  /\ parseOut = NotRun
  /\ keyIn = <<NoReq, NoReq>>
  /\ keyOut = NoKeys

RunParser ==
  /\ ~parseOut.done
  /\ parseOut' = [raised |-> ParseVerdict(parseIn).raised,
                  val |-> ParseVerdict(parseIn).val, done |-> TRUE]
  /\ UNCHANGED <<handlerVars, parseIn, keyIn, keyOut>>

NextParse == RunParser

SpecParse == InitParse /\ [][NextParse]_vars

(***************************************************************************)
(* cache_key on its own: it is applied to every pair of requests drawn     *)
(* from KeyRequests.                                                       *)
(***************************************************************************)
KeyAlphabet == {"{", "}"}
ShortResumes == SeqsUpTo(KeyAlphabet, MaxResumeLen)
\* 49 pad characters, then a tail: the first tail character is the 50th
\* character of the resume, the others lie beyond the prefix
LongResumes ==
  {Pad(ResumePrefixLen - 1) \o t : t \in SeqsUpTo({"x", "y"}, MaxTailLen) \ {<<>>}}
KeyResumes ==
  {NoResume, SomeResume(NoResumeLiteral)}
  \cup {SomeResume(t) : t \in ShortResumes \cup LongResumes}
KeyPrefs == {NoPrefs, SomePrefs(<<>>), SomePrefs(<<Item(<<"a">>, 1)>>)}
KeyJobs == {<<>>, Job1, <<"{", "}">>, <<"{", "}", "j">>}
KeyRequests == {FitRequest(r, p, j) : r \in KeyResumes, p \in KeyPrefs, j \in KeyJobs}

InitKey ==
  /\ InitHandler
  /\ parseIn = NoText
  /\ parseOut = NotRun
  /\ keyIn \in KeyRequests \X KeyRequests
  /\ keyOut = NoKeys

RunCacheKey ==
  /\ keyOut = NoKeys
  /\ keyOut' = <<cache_key(keyIn[1]), cache_key(keyIn[2])>>
  /\ UNCHANGED <<handlerVars, parseIn, parseOut, keyIn>>

NextKey == RunCacheKey

SpecKey == InitKey /\ [][NextKey]_vars

(***************************************************************************)
(* Properties of the handler, checked under Spec.                          *)
(***************************************************************************)
\* C1: a call whose key is in CACHE at its lookup takes the hit branch, and
\* the hit branch answers 200 with exactly CACHE[key], leaves CACHE as it
\* was, and has made no gateway call, built no prompt and run no parse.
C1_CacheHit ==
  [][\A c \in Calls :
       /\ (pc[c] = "lookup" /\ pc'[c] # "lookup" /\ cache_key(req[c]) \in DOMAIN CACHE)
            => pc'[c] = "hit"
       /\ (pc[c] = "hit" /\ pc'[c] # "hit")
            => /\ pc'[c] = "done"
               /\ resp'[c] = Ok200(CACHE[key[c]])
               /\ CACHE' = CACHE
               /\ count'[c].gw = 0
               /\ count'[c].prompt = 0
               /\ count'[c].parse = 0
               /\ count'[c].write = 0]_vars

C1_Witness ==
  \E c \in Calls :
    /\ pc[c] = "done" /\ outcome[c] = "hit"
    /\ Truthy(req[c].resume)
    /\ resp[c] = Ok200(CACHE[key[c]])
    /\ count[c].gw = 0

\* C2: when the gateway call of a cache-miss request raises, the call is
\* answered 500 with str(e) as detail, the failing step leaves CACHE as it
\* was, and the call has written nothing to CACHE.
C2_GatewayFailure ==
  [][\A c \in Calls :
       /\ (pc[c] = "miss" /\ exc'[c] \in GatewayErrors)
            => /\ pc'[c] = "done"
               /\ resp'[c] = Err500(StrOf(exc'[c]))
               /\ CACHE' = CACHE
       /\ outcome'[c] = "gateway_error"
            => /\ resp'[c].status = 500
               /\ resp'[c].detail = exc'[c].msg
               /\ count'[c].write = 0
               /\ \A k \in DOMAIN lastWriter' : lastWriter'[k] # c]_vars

C2_Witness ==
  \E c \in Calls :
    /\ pc[c] = "done" /\ outcome[c] = "gateway_error"
    /\ resp[c] = Err500("read timed out")
    /\ key[c] \notin DOMAIN CACHE

\* C3 (as claimed): every call whose gateway call succeeded ends with a 200
\* carrying the parsed verdict or the sentinel.
C3_ParseFailureNever500 ==
  \A c \in Calls :
    (pc[c] = "done" /\ text[c] # NoText)
      => /\ resp[c].status = 200
         /\ \/ resp[c].body = Sentinel(text[c])
            \/ \E i \in 1..(Len(text[c]) + 1), j \in 0..Len(text[c]) :
                 /\ JsonLoads(SubSeq(text[c], i, j)).ok
                 /\ resp[c].body = JsonLoads(SubSeq(text[c], i, j)).val

\* C4: a request without a resume is answered 200 with the "Resume text is
\* required" body in its first step, which leaves CACHE as it was; the call
\* looks nothing up, calls no gateway, writes nothing and raises nothing.
C4_Reject ==
  [][\A c \in Calls :
       /\ (pc[c] = "idle" /\ pc'[c] # "idle" /\ ~req'[c].resume.present)
            => /\ pc'[c] = "done"
               /\ resp'[c] = Ok200(RejectBody)
               /\ CACHE' = CACHE
       /\ (pc'[c] # "idle" /\ ~req'[c].resume.present)
            => /\ outcome'[c] = "reject"
               /\ exc'[c] = NoExc
               /\ key'[c] = NoKey
               /\ count'[c].gw = 0
               /\ count'[c].lookup = 0
               /\ count'[c].write = 0]_vars

C4_Witness ==
  \E c \in Calls :
    /\ pc[c] = "done" /\ req[c] = ReqNone
    /\ resp[c] = Ok200(RejectBody)
    /\ count[c].gw = 0
    /\ DOMAIN CACHE # {}

\* C9: there is no single-flight.  A call that missed goes on to the
\* gateway whatever CACHE holds by then, a call that stores assigns
\* CACHE[key] whether or not the key is already there, and so the value
\* under a key is always the one parsed by the call that wrote it last.
LastWriterWins ==
  \A k \in DOMAIN CACHE :
    /\ k \in DOMAIN lastWriter
    /\ key[lastWriter[k]] = k
    /\ CACHE[k] = parsed[lastWriter[k]]

C9_NoSingleFlight ==
  [][/\ \A c \in Calls :
          /\ (pc[c] = "miss" /\ pc'[c] # "miss")
               => (pc'[c] \in {"store", "done"} /\ count'[c].gw = 1 /\ outcome'[c] # "hit")
          /\ (pc[c] = "store" /\ pc'[c] # "store")
               => /\ key[c] \in DOMAIN CACHE'
                  /\ CACHE'[key[c]] = parsed[c]
                  /\ count'[c].write = 1
     /\ LastWriterWins']_vars

C9_Witness ==
  \E c1, c2 \in Calls :
    /\ c1 # c2
    /\ key[c1] = key[c2]
    /\ outcome[c1] = "pipeline" /\ outcome[c2] = "pipeline"
    /\ count[c1].gw = 1 /\ count[c2].gw = 1
    /\ count[c1].write = 1 /\ count[c2].write = 1
    /\ lastWriter[key[c1]] = c2
    /\ CACHE[key[c1]] = resp[c2].body
    /\ CACHE[key[c1]] # resp[c1].body

\* C10: a call makes at most one gateway call (none when rejected or served
\* from CACHE, one on a miss), answers exactly once, and a call whose
\* gateway call failed is finished.
C10_NoRetry ==
  \A c \in Calls :
    /\ count[c].gw <= 1
    /\ count[c].resp = (IF pc[c] = "done" THEN 1 ELSE 0)
    /\ outcome[c] \in {"reject", "hit"} => count[c].gw = 0
    /\ (pc[c] = "store" \/ outcome[c] \in {"pipeline", "gateway_error", "parse_error"})
         => count[c].gw = 1
    /\ pc[c] \in {"idle", "lookup", "hit", "miss"} => count[c].gw = 0
    /\ exc[c] \in GatewayErrors => (pc[c] = "done" /\ outcome[c] = "gateway_error")

C10_Witness ==
  \E c \in Calls :
    /\ pc[c] = "done" /\ outcome[c] = "gateway_error"
    /\ count[c].gw = 1
    /\ count[c].resp = 1

(***************************************************************************)
(* Properties of the parser, checked under SpecParse.                      *)
(***************************************************************************)
IsFirstOpen(s, i) == s[i] = "{" /\ \A k \in 1..(i - 1) : s[k] # "{"
IsLastClose(s, j) == s[j] = "}" /\ \A k \in (j + 1)..Len(s) : s[k] # "}"
FitScore80 == JObj(<<Item(<<"f", "i", "t", "_", "s", "c", "o", "r", "e">>, JNum(80))>>)

\* C5: a text that parses as JSON yields that parse; otherwise, when the
\* text from its first "{" to its last "}" (the first before the last)
\* parses as JSON, the verdict is the parse of that substring.
C5_TwoStageParse ==
  parseOut.done =>
    LET direct == JsonLoads(parseIn)
    IN /\ direct.ok => (~parseOut.raised /\ parseOut.val = direct.val)
       /\ ~direct.ok =>
            \A i, j \in 1..Len(parseIn) :
              (/\ IsFirstOpen(parseIn, i)
               /\ IsLastClose(parseIn, j)
               /\ i < j
               /\ JsonLoads(SubSeq(parseIn, i, j)).ok)
                => (~parseOut.raised /\ parseOut.val = JsonLoads(SubSeq(parseIn, i, j)).val)
       /\ parseIn = TxtSure => parseOut.val = FitScore80
       /\ parseIn = TxtFitScore => parseOut.val = FitScore80

C5_Witness ==
  /\ parseOut.done
  /\ parseIn = TxtSure
  /\ ~JsonLoads(parseIn).ok
  /\ parseOut.val = FitScore80

\* C6 (as claimed): when the direct parse fails and the text has no "{", no
\* "}", or its last "}" before its first "{", the verdict is the sentinel
\* carrying the text.
C6_FallbackGuard ==
  (/\ parseOut.done
   /\ ~JsonLoads(parseIn).ok
   /\ ~\E i, j \in 1..Len(parseIn) :
         IsFirstOpen(parseIn, i) /\ IsLastClose(parseIn, j) /\ i < j)
    => (~parseOut.raised /\ parseOut.val = Sentinel(parseIn))

(***************************************************************************)
(* Properties of cache_key, checked under SpecKey.                         *)
(***************************************************************************)
FirstChars(s, n) == [i \in 1..(IF Len(s) < n THEN Len(s) ELSE n) |-> s[i]]
HasResume(r) == r.resume.present /\ r.resume.chars # <<>>
SameResumePrefix(a, b) ==
  \/ ~HasResume(a) /\ ~HasResume(b)
  \/ /\ HasResume(a) /\ HasResume(b)
     /\ FirstChars(a.resume.chars, ResumePrefixLen) = FirstChars(b.resume.chars, ResumePrefixLen)
SameSerializedPrefs(a, b) ==
  JsonDumps(PrefsOrEmpty(a.preferences)) = JsonDumps(PrefsOrEmpty(b.preferences))

\* C7 (as claimed): two requests get the same key only if they have the
\* same resume prefix (or neither has a resume), the same serialized
\* preferences and the same job.
C7_CollideOnlyByTruncation ==
  (keyOut # NoKeys /\ keyOut[1] = keyOut[2])
    => /\ SameResumePrefix(keyIn[1], keyIn[2])
       /\ SameSerializedPrefs(keyIn[1], keyIn[2])
       /\ keyIn[1].job = keyIn[2].job

\* C8: two requests whose resumes agree on their first 50 characters (or
\* that both have none), with the same serialized preferences and the same
\* job, get the same key.
C8_KeyDeterminism ==
  (/\ keyOut # NoKeys
   /\ SameResumePrefix(keyIn[1], keyIn[2])
   /\ SameSerializedPrefs(keyIn[1], keyIn[2])
   /\ keyIn[1].job = keyIn[2].job)
    => keyOut[1] = keyOut[2]

C8_Witness ==
  /\ keyOut # NoKeys
  /\ Len(keyIn[1].resume.chars) > ResumePrefixLen
  /\ Len(keyIn[2].resume.chars) > ResumePrefixLen
  /\ keyIn[1].resume.chars # keyIn[2].resume.chars
  /\ SameResumePrefix(keyIn[1], keyIn[2])
  /\ keyIn[1].preferences = keyIn[2].preferences
  /\ keyIn[1].job = keyIn[2].job
  /\ keyOut[1] = keyOut[2]

(***************************************************************************)
(* Properties of the handler when requests run one after another, checked  *)
(* under SpecSeq.                                                          *)
(***************************************************************************)
GatewaySucceeded(c) == text[c] # NoText

\* C11 (as claimed): a call whose gateway call succeeded has stored the body
\* it returned under its key, and no two calls with one key both had a
\* successful gateway call (the second is a cache hit).
C11_PipelineStoresWhatItReturns ==
  /\ \A c \in Calls :
       (pc[c] = "done" /\ GatewaySucceeded(c))
         => /\ outcome[c] = "pipeline"
            /\ resp[c] = Ok200(parsed[c])
            /\ key[c] \in DOMAIN CACHE
            /\ CACHE[key[c]] = resp[c].body
  /\ \A c, d \in Calls :
       (c # d /\ key[c] = key[d] /\ GatewaySucceeded(c)) => ~GatewaySucceeded(d)

(***************************************************************************)
(* Further properties of the handler, checked under Spec.                  *)
(***************************************************************************)
\* C12: no step removes an entry of CACHE: a key that is in CACHE is in it
\* after every step, so the set of cached keys only grows.
C12_NoEviction ==
  [][\A k \in DOMAIN CACHE : k \in DOMAIN CACHE']_vars

C12_Witness ==
  /\ Cardinality(DOMAIN CACHE) = 2
  /\ healthResp = Ok200(HealthBody)
  /\ \A c \in Calls : outcome[c] = "pipeline"

\* C13 (as claimed): a call whose request has an empty job text does no
\* cache lookup, no gateway call and no cache write.
C13_EmptyJobStops ==
  \A c \in Calls :
    (pc[c] # "idle" /\ req[c].job = <<>>)
      => /\ count[c].lookup = 0
         /\ count[c].gw = 0
         /\ count[c].write = 0

\* C14: /health can be answered in every state, its answer is always 200
\* with {"status": "ok"}, and the step that answers changes nothing else:
\* not CACHE, and no call's position, locals, response or counters.
C14_HealthUnconditional ==
  [][/\ ENABLED Health
     /\ healthResp' \in {NoResp, Ok200(HealthBody)}
     /\ healthResp' # healthResp
          => /\ healthResp' = Ok200(HealthBody)
             /\ CACHE' = CACHE
             /\ lastWriter' = lastWriter
             /\ <<pc, req, key, prompt, text, parsed, exc, resp, outcome, count>>'
                  = <<pc, req, key, prompt, text, parsed, exc, resp, outcome, count>>]_vars

C14_Witness ==
  /\ healthResp = Ok200(HealthBody)
  /\ \E c, d \in Calls :
       /\ outcome[c] = "gateway_error"
       /\ pc[d] = "store"
       /\ DOMAIN CACHE = {}

\* C15: when a call A has gone through the full pipeline and a call B has
\* a resume equal to A's on the first 50 characters and different after,
\* with A's preferences and job, B's lookup is a hit; and when CACHE still
\* holds A's verdict, B is answered with it, having made no gateway call
\* and sent no prompt.
DiffersAfterPrefix(a, b) ==
  /\ HasResume(a) /\ HasResume(b)
  /\ a.resume.chars # b.resume.chars
  /\ FirstChars(a.resume.chars, ResumePrefixLen) = FirstChars(b.resume.chars, ResumePrefixLen)
  /\ a.preferences = b.preferences
  /\ a.job = b.job

C15_FalseCacheHit ==
  [][\A a, b \in Calls :
       (a # b /\ outcome[a] = "pipeline" /\ DiffersAfterPrefix(req[a], req[b]))
         => /\ (pc[b] = "lookup" /\ pc'[b] # "lookup") => pc'[b] = "hit"
            /\ (pc[b] = "hit" /\ pc'[b] # "hit" /\ CACHE[key[a]] = resp[a].body)
                 => /\ resp'[b] = Ok200(resp[a].body)
                    /\ count'[b].gw = 0
                    /\ prompt'[b] = NoPrompt]_vars

C15_Witness ==
  \E a, b \in Calls :
    /\ req[a] = ReqA /\ req[b] = ReqB
    /\ outcome[a] = "pipeline" /\ outcome[b] = "hit"
    /\ resp[b] = resp[a]
    /\ resp[b].body = JsonLoads(TxtValid).val
    /\ count[b].gw = 0

(***************************************************************************)
(* Further properties when requests run one after another, checked under   *)
(* SpecSeq.                                                                *)
(***************************************************************************)
\* C16: once a call has ended its pipeline with the sentinel, CACHE holds
\* that sentinel under its key after every later step, and every other
\* call with that key is a hit answered with the sentinel, without a
\* gateway call.
EndedWithSentinel(c) ==
  outcome[c] = "pipeline" /\ resp[c] = Ok200(Sentinel(text[c]))

C16_SentinelIsCached ==
  [][\A c \in Calls :
       EndedWithSentinel(c)
         => /\ key[c] \in DOMAIN CACHE'
            /\ CACHE'[key[c]] = Sentinel(text[c])
            /\ \A d \in Calls \ {c} :
                 /\ (pc[d] = "lookup" /\ pc'[d] # "lookup" /\ cache_key(req[d]) = key[c])
                      => pc'[d] = "hit"
                 /\ (pc[d] = "hit" /\ pc'[d] # "hit" /\ key[d] = key[c])
                      => /\ resp'[d] = Ok200(Sentinel(text[c]))
                         /\ count'[d].gw = 0
                         /\ text'[d] = NoText]_vars

C16_Witness ==
  \E c, d \in Calls :
    /\ EndedWithSentinel(c)
    /\ text[c] = TxtNoBraces
    /\ outcome[d] = "hit" /\ key[d] = key[c]
    /\ resp[d] = Ok200(Sentinel(TxtNoBraces))
    /\ count[d].gw = 0

(***************************************************************************)
(* Cache integrity, checked under Spec.                                    *)
(***************************************************************************)
\* C17: in every reachable state, each value in CACHE under a key k is the
\* parse result of the text of a successful gateway call of a call whose
\* key is k, and it is what the call that wrote it last returned from its
\* full pipeline; a call that was rejected, served from CACHE or failed has
\* written nothing; and the body of every call served from CACHE is a body
\* that a full pipeline with the same key returned.
\* the parse result of each text the gateway can return
VerdictOf == [t \in GatewayTexts |-> ParseVerdict(t)]

CacheIntegrity ==
  \A k \in DOMAIN CACHE :
    \E c \in Calls :
      /\ key[c] = k
      /\ GatewaySucceeded(c)
      /\ ~VerdictOf[text[c]].raised
      /\ CACHE[k] = VerdictOf[text[c]].val

HitsServePipelineBodies ==
  \A c \in Calls :
    outcome[c] = "hit"
      => \E d \in Calls \ {c} :
           /\ outcome[d] = "pipeline"
           /\ key[d] = key[c]
           /\ resp[d] = resp[c]

OnlyPipelinesWrite ==
  /\ \A c \in Calls :
       outcome[c] \in {"none", "reject", "hit", "gateway_error", "parse_error"}
         => /\ count[c].write = 0
            /\ \A k \in DOMAIN lastWriter : lastWriter[k] # c
  /\ DOMAIN lastWriter = DOMAIN CACHE
  /\ \A k \in DOMAIN CACHE :
       /\ outcome[lastWriter[k]] = "pipeline"
       /\ key[lastWriter[k]] = k
       /\ resp[lastWriter[k]] = Ok200(CACHE[k])

NoResumeKeys == {cache_key(r) : r \in {ReqNone, ReqEmpty}}

\* C18 (as claimed): a request whose resume is absent or empty is answered
\* with the reject body without a lookup, a gateway call or a write; only
\* calls with a non-empty resume compute a key; and no key of CACHE is one
\* that cache_key derives from "no-resume".
C18_NoResumeKeyNeverStored ==
  /\ \A c \in Calls :
       (pc[c] # "idle" /\ ~Truthy(req[c].resume))
         => /\ pc[c] = "done"
            /\ resp[c] = Ok200(RejectBody)
            /\ key[c] = NoKey
            /\ count[c].lookup = 0 /\ count[c].gw = 0 /\ count[c].write = 0
  /\ \A c \in Calls : key[c] # NoKey => Truthy(req[c].resume)
  /\ \A k \in DOMAIN CACHE : k \notin NoResumeKeys

====
